---- MODULE Spec2Model ----
(***************************************************************************)
(* Flight-log download workflow of ovshell_fileman/downloader.py:          *)
(* DownloadFilter, Downloader, AutomountWatcher and LogDownloaderActivity, *)
(* together with the file system they act on.                              *)
(*                                                                         *)
(* File names are sequences of one-character strings, so that              *)
(* entry.name.lower() and os.path.splitext are computed, not assumed.      *)
(* Python values stored in filter fields are modelled by their repr        *)
(* ("True", "False", ...), because fromdict stores whatever the mapping    *)
(* holds.  File contents are abstract identifiers 1..MaxContent, 0 meaning *)
(* that the file does not exist.  FileInfo.size is not modelled.           *)
(*                                                                         *)
(* Spec covers the watcher, the mount and unmount handlers and the file    *)
(* selection, with the filter fixed at the value loaded by __init__; the   *)
(* filter check boxes (_set_filter_option) are not among its actions.      *)
(* SpecUI is the activity with its check boxes and without file selection; *)
(* SpecFn calls DownloadFilter and Downloader.list_logs directly, on       *)
(* arguments drawn from bounded sets.                                      *)
(* assert statements are taken to be enabled (python without -O).          *)
(***************************************************************************)
EXTENDS Integers, Sequences, FiniteSets, TLC

\* ---------------------------------------------------------------- bounds
MaxFiles == 2
MaxContent == 2
MaxAux == 2

\* ------------------------------------------------------------ file names
AllNames ==
  << <<"a", ".", "i", "g", "c">>,
     <<"B", ".", "N", "M", "E", "A">>,
     <<"c", ".", "t", "x", "t">>,
     <<"d", ".", "I", "g", "c">>,
     <<".", "i", "g", "c">>,
     <<"e">> >>

AllMtimes == <<1, 2, 2, 1, 3, 2>>

NameCount == IF MaxFiles < Len(AllNames) THEN MaxFiles ELSE Len(AllNames)

Names == {AllNames[i] : i \in 1..NameCount}

\* st_mtime of the entry called n
MtimeOf(n) == AllMtimes[CHOOSE i \in 1..Len(AllNames) : AllNames[i] = n]

Contents == 1..MaxContent

NoName == <<>>

\* ------------------------------------------------------- str.lower, splitext
LowerChar(c) ==
  CASE c = "A" -> "a" [] c = "B" -> "b" [] c = "C" -> "c" [] c = "E" -> "e"
    [] c = "G" -> "g" [] c = "I" -> "i" [] c = "M" -> "m" [] c = "N" -> "n"
    [] OTHER -> c

lower(s) == [i \in 1..Len(s) |-> LowerChar(s[i])]

\* index of the last "." of s, 0 when there is none
LastDot(s) ==
  IF \E i \in 1..Len(s) : s[i] = "."
  THEN CHOOSE i \in 1..Len(s) : s[i] = "." /\ \A j \in (i+1)..Len(s) : s[j] # "."
  ELSE 0

\* os.path.splitext(p)[1]: the part from the last dot on, unless only dots
\* precede that dot
splitext(p) ==
  LET dot == LastDot(p) IN
  IF dot > 0 /\ \E i \in 1..(dot-1) : p[i] # "."
  THEN SubSeq(p, dot, Len(p))
  ELSE <<>>

EXT_IGC == <<".", "i", "g", "c">>
EXT_NMEA == <<".", "n", "m", "e", "a">>
PyNone == <<"None">>

\* ----------------------------------------------------------- DownloadFilter
Truthy(v) == v \notin {"False", "0", "None", "''"}

DefaultFilter == [new |-> "True", igc |-> "True", nmea |-> "False"]

\* asdict leaving out the field new
asdict_nonew(f) == [k \in {"igc", "nmea"} |-> IF k = "igc" THEN f.igc ELSE f.nmea]

asdict(f) == [k \in {"new", "igc", "nmea"} |->
                IF k = "new" THEN f.new ELSE IF k = "igc" THEN f.igc ELSE f.nmea]

\* fromdict starting from an all-False filter instead of the defaults
fromdict_nodefault(state) ==
  [new  |-> IF "new" \in DOMAIN state THEN state["new"] ELSE "False",
   igc  |-> IF "igc" \in DOMAIN state THEN state["igc"] ELSE "False",
   nmea |-> IF "nmea" \in DOMAIN state THEN state["nmea"] ELSE "False"]

fromdict(state) ==
  [new  |-> IF "new" \in DOMAIN state THEN state["new"] ELSE DefaultFilter.new,
   igc  |-> IF "igc" \in DOMAIN state THEN state["igc"] ELSE DefaultFilter.igc,
   nmea |-> IF "nmea" \in DOMAIN state THEN state["nmea"] ELSE DefaultFilter.nmea]

EmptyMapping == [k \in {} |-> "True"]

\* ---------------------------------------------------------------- Downloader
\* Downloader._matches(fileinfo, filter)
_matches(fileinfo, filter) ==
  LET ftypes == {IF Truthy(filter.nmea) THEN EXT_NMEA ELSE PyNone,
                 IF Truthy(filter.igc) THEN EXT_IGC ELSE PyNone}
      matches == fileinfo.ftype \in ftypes
  IN IF Truthy(filter.new) THEN matches /\ ~fileinfo.downloaded ELSE matches

\* FileInfo built from entry.name without lower()
FileInfo_nolower(n) ==
  [name |-> n, ftype |-> splitext(n), mtime |-> MtimeOf(n), downloaded |-> FALSE]

\* FileInfo built with downloaded=True
FileInfo_marked(n) ==
  [name |-> n, ftype |-> splitext(lower(n)), mtime |-> MtimeOf(n), downloaded |-> TRUE]

\* FileInfo built in the loop of list_logs for the entry called n
FileInfo(n) ==
  [name |-> n, ftype |-> splitext(lower(n)), mtime |-> MtimeOf(n), downloaded |-> FALSE]

\* sorted(res, key=mtime, reverse=True): stable, equal keys keep their order
RECURSIVE InsertDesc(_, _)
InsertDesc(fi, sortedSeq) ==
  IF sortedSeq = <<>> THEN <<fi>>
  ELSE IF Head(sortedSeq).mtime >= fi.mtime
       THEN <<Head(sortedSeq)>> \o InsertDesc(fi, Tail(sortedSeq))
       ELSE <<fi>> \o sortedSeq

\* list_logs returning res unsorted
sorted_none(res) == res

RECURSIVE sorted(_)
sorted(res) ==
  IF res = <<>> THEN <<>>
  ELSE InsertDesc(res[Len(res)], sorted(SubSeq(res, 1, Len(res) - 1)))

RECURSIVE ScanLoop(_, _)
ScanLoop(entries, selfFilter) ==
  IF entries = <<>> THEN <<>>
  ELSE LET fileinfo == FileInfo(Head(entries)) IN
       (IF _matches(fileinfo, selfFilter) THEN <<fileinfo>> ELSE <<>>)
         \o ScanLoop(Tail(entries), selfFilter)

\* list_logs without the check of the source directory: os.scandir raises
list_logs_nocheck(dirExists, entries, gone, selfFilter, filter) ==
  IF ~dirExists \/ gone # NoName THEN [value |-> <<>>, exc |-> "FileNotFoundError"]
  ELSE [value |-> sorted(ScanLoop(entries, selfFilter)), exc |-> "none"]

\* Downloader.list_logs(filter).  entries is the order in which os.scandir
\* yields the directory; gone names an entry removed between its enumeration
\* and entry.stat() (NoName: none), for which stat raises FileNotFoundError;
\* selfFilter is self.filter, filter the argument.  The result carries the
\* returned list and the exception that left the call ("none": it returned).
list_logs(dirExists, entries, gone, selfFilter, filter) ==
  IF ~dirExists THEN [value |-> <<>>, exc |-> "none"]
  ELSE IF gone # NoName THEN [value |-> <<>>, exc |-> "FileNotFoundError"]
  ELSE [value |-> sorted(ScanLoop(entries, selfFilter)), exc |-> "none"]

\* _ensure_dest_dir without its assertion: makedirs creates the mount point too
_ensure_dest_dir_noassert(fs) ==
  [fs |-> [fs EXCEPT !.mnt = TRUE, !.logs = TRUE], exc |-> "none"]

\* a copy that leaves an existing destination file alone
copy_keep(fs, name) ==
  IF ~fs.srcDir \/ fs.source[name] = 0
  THEN [fs |-> fs, exc |-> "FileNotFoundError"]
  ELSE [fs |-> [fs EXCEPT !.dest[name] = IF @ = 0 THEN fs.source[name] ELSE @],
        exc |-> "none"]

\* Downloader._get_dest_dir / _ensure_dest_dir / download act on the file
\* system fs == [mnt, logs, dest, srcDir, source]; the result carries the
\* exception that left the call ("none" when it returned).
\* _ensure_dest_dir: assert os.path.exists(self.mount_dir), then
\* os.makedirs(<mount>/logs, exist_ok=True)
_ensure_dest_dir(fs) ==
  IF ~fs.mnt THEN [fs |-> fs, exc |-> "AssertionError"]
  ELSE [fs |-> [fs EXCEPT !.logs = TRUE], exc |-> "none"]

\* shutil.copy(<source_dir>/<name>, <mount>/logs)
copy(fs, name) ==
  IF ~fs.srcDir \/ fs.source[name] = 0
  THEN [fs |-> fs, exc |-> "FileNotFoundError"]
  ELSE [fs |-> [fs EXCEPT !.dest[name] = fs.source[name]], exc |-> "none"]

download(fs, name) ==
  LET destdir == _ensure_dest_dir(fs) IN
  IF destdir.exc # "none" THEN destdir ELSE copy(destdir.fs, name)

\* ------------------------------------------------------------------ state
VARIABLES
  mntExists,        \* os.path.exists(USB_MOUNTPOINT)
  logsDir,          \* the storage holds a directory logs
  dest,             \* dest[n]: content of logs/<n> on the storage, 0 = none
  srcDir,           \* <xcsoar.home>/logs exists
  source,           \* source[n]: content of <xcsoar.home>/logs/<n>, 0 = none
  pc,               \* position of the task running AutomountWatcher.run
  mounted,          \* local variable mounted of run
  cancelReq,        \* the host requested cancellation of the task
  mountHandlers,    \* AutomountWatcher._mount_handlers
  unmountHandlers,  \* AutomountWatcher._unmount_handlers
  fired,            \* handlers called by the latest iteration of run, in order
  event,            \* event the latest iteration of run dispatched, or "none"
  lastEvent,        \* latest event any iteration dispatched, or "none"
  lastObs,          \* what the latest iteration found at the mount path
  settings,         \* value stored under fileman.download-logs.filter
  filter,           \* LogDownloaderActivity.filter (shared with Downloader)
  view,             \* body of the frame: "waiting" or "app"
  pile,             \* rows of _file_pile
  done,             \* names whose row status reads " Done "
  calls,            \* calls made by the latest _file_clicked, in order
  raised,           \* exception that left the latest _file_clicked or
                    \* _set_filter_option
  op,               \* function called directly by the latest step, or "none"
  arg,              \* its arguments
  result            \* what it returned

fsVars == <<mntExists, logsDir, dest, srcDir, source>>
watcherVars == <<pc, mounted, cancelReq, mountHandlers, unmountHandlers, fired, event,
                 lastEvent, lastObs>>
activityVars == <<settings, filter, view, pile, done, calls, raised>>
fnVars == <<op, arg, result>>
vars == <<fsVars, watcherVars, activityVars, fnVars>>

FS == [mnt |-> mntExists, logs |-> logsDir, dest |-> dest,
       srcDir |-> srcDir, source |-> source]

\* callables registered with the watcher: the activity's two methods, and the
\* k-th plain callable registered for an event by other code
MountedMethod == <<"_mounted", 0>>
UnmountedMethod == <<"_unmounted", 0>>
AuxHandler(kind, k) == <<kind, k>>

\* row of the pile shown when the listing is empty
NoLogsText == <<"No flight logs selected.">>

\* values found under the settings key when the activity is constructed
InitialSettings ==
  { EmptyMapping,
    [k \in {"nmea"} |-> "True"] }

\* state after LogDownloaderActivity.__init__ and create
Init ==
  /\ mntExists \in BOOLEAN
  /\ logsDir = FALSE
  /\ dest = [n \in Names |-> 0]
  /\ srcDir = FALSE
  /\ source = [n \in Names |-> 0]
  /\ pc = "init"
  /\ mounted = FALSE
  /\ cancelReq = FALSE
  /\ mountHandlers = <<>>
  /\ unmountHandlers = <<>>
  /\ fired = <<>>
  /\ event = "none"
  /\ lastEvent = "none"
  /\ lastObs = "none"
  /\ settings \in InitialSettings
  /\ filter = fromdict(settings)
  /\ view = "waiting"
  /\ pile = <<>>
  /\ done = {}
  /\ calls = <<>>
  /\ raised = "none"
  /\ op = "none"
  /\ arg = <<>>
  /\ result = <<>>

\* ------------------------------------------------------------- environment
\* removable storage is attached; blank: it is an empty medium
Plug(blank) ==
  /\ ~mntExists
  /\ mntExists' = TRUE
  /\ IF blank THEN logsDir' = FALSE /\ dest' = [n \in Names |-> 0]
              ELSE UNCHANGED <<logsDir, dest>>
  /\ UNCHANGED <<srcDir, source, watcherVars, activityVars, fnVars>>

Unplug ==
  /\ mntExists
  /\ mntExists' = FALSE
  /\ UNCHANGED <<logsDir, dest, srcDir, source, watcherVars, activityVars, fnVars>>

\* the flight software writes a log
WriteLog(n, c) ==
  /\ source[n] # c
  /\ srcDir' = TRUE
  /\ source' = [source EXCEPT ![n] = c]
  /\ UNCHANGED <<mntExists, logsDir, dest, watcherVars, activityVars, fnVars>>

RemoveLog(n) ==
  /\ source[n] # 0
  /\ source' = [source EXCEPT ![n] = 0]
  /\ UNCHANGED <<mntExists, logsDir, dest, srcDir, watcherVars, activityVars, fnVars>>


\* --------------------------------------------------- LogDownloaderActivity
\* The handlers work on st == [view, pile, done, source, mounted, exc, fired,
\* event]: the activity's widgets, the source directory as the listing finds
\* it, the local variable of run, the exception in flight, the handlers called
\* so far and the event dispatched.

\* entries of the source directory, in any order os.scandir may yield them
Present(src) == {n \in Names : src[n] # 0}

ScanOrders(src) ==
  {o \in [1..Cardinality(Present(src)) -> Present(src)] :
     \A i, j \in DOMAIN o : i # j => o[i] # o[j]}

NamesOf(files) == [i \in 1..Len(files) |-> files[i].name]

\* _populate_file_pile when self.filter (the object the Downloader holds too)
\* has the value filt
populate(filt, st, entries, gone) ==
  LET files == list_logs(srcDir, entries, gone, filt, filt) IN
  IF files.exc # "none"
  THEN [st EXCEPT !.exc = files.exc, !.source[gone] = 0]
  ELSE [st EXCEPT !.pile = IF files.value # <<>> THEN NamesOf(files.value)
                                                 ELSE <<NoLogsText>>,
                  !.done = {}]

_populate_file_pile(st, entries, gone) == populate(filter, st, entries, gone)

_mounted(st, entries, gone) ==
  LET p == _populate_file_pile(st, entries, gone) IN
  IF p.exc # "none" THEN p ELSE [p EXCEPT !.view = "app"]

_unmounted(st) == [st EXCEPT !.view = "waiting"]

\* _file_clicked marking the row before it copies
file_clicked_early(fs, doneRows, name) ==
  LET r == download(fs, name) IN
  IF r.exc # "none"
  THEN [fs |-> r.fs, done |-> doneRows \cup {name},
        calls |-> <<"set_text", "download">>, exc |-> r.exc]
  ELSE [fs |-> r.fs, done |-> doneRows \cup {name},
        calls |-> <<"set_text", "download", "sync">>, exc |-> "none"]

\* LogDownloaderActivity._file_clicked: download, then the row status, then
\* os.sync; an exception of download leaves the method at once
file_clicked(fs, doneRows, name) ==
  LET r == download(fs, name) IN
  IF r.exc # "none"
  THEN [fs |-> r.fs, done |-> doneRows, calls |-> <<"download">>, exc |-> r.exc]
  ELSE [fs |-> r.fs, done |-> doneRows \cup {name},
        calls |-> <<"download", "set_text", "sync">>, exc |-> "none"]

\* --------------------------------------------------------- AutomountWatcher
\* a registered callable is called: a method of the activity, or a callable
\* that just returns
CallHandler(h, st, entries, gone) ==
  IF h = MountedMethod THEN _mounted(st, entries, gone)
  ELSE IF h = UnmountedMethod THEN _unmounted(st)
  ELSE st

\* for handler in handlers: handler()    (an exception ends the loop)
RECURSIVE Dispatch(_, _, _, _)
Dispatch(handlers, st, entries, gone) ==
  IF handlers = <<>> \/ st.exc # "none" THEN st
  ELSE Dispatch(Tail(handlers),
                CallHandler(Head(handlers),
                            [st EXCEPT !.fired = Append(@, Head(handlers))],
                            entries, gone),
                entries, gone)

\* _handle_mount leaving its loop after the first handler
_handle_mount_first(st, entries, gone) ==
  Dispatch(IF mountHandlers = <<>> THEN <<>> ELSE <<Head(mountHandlers)>>,
           [st EXCEPT !.event = "mount"], entries, gone)

_handle_mount(st, entries, gone) ==
  Dispatch(mountHandlers, [st EXCEPT !.event = "mount"], entries, gone)

\* _handle_unmount walking the mount handlers
_handle_unmount_pasted(st) ==
  Dispatch(mountHandlers, [st EXCEPT !.event = "unmount"], <<>>, NoName)

_handle_unmount(st) ==
  Dispatch(unmountHandlers, [st EXCEPT !.event = "unmount"], <<>>, NoName)

\* loop body of run that never records the mounted state
run_body_level(st, exists, entries, gone) ==
  IF exists
  THEN IF ~st.mounted THEN _handle_mount(st, entries, gone) ELSE st
  ELSE LET r == IF st.mounted THEN _handle_unmount(st) ELSE st IN
       IF r.exc # "none" THEN r ELSE [r EXCEPT !.mounted = FALSE]

\* body of the loop of run, given what os.path.exists(self._mountpoint) says;
\* an exception of a handler skips the assignment to mounted
run_body(st, exists, entries, gone) ==
  IF exists
  THEN LET r == IF ~st.mounted THEN _handle_mount(st, entries, gone) ELSE st IN
       IF r.exc # "none" THEN r ELSE [r EXCEPT !.mounted = TRUE]
  ELSE LET r == IF st.mounted THEN _handle_unmount(st) ELSE st IN
       IF r.exc # "none" THEN r ELSE [r EXCEPT !.mounted = FALSE]

\* run catching CancelledError around its sleep and looping on
Resumable_swallow == pc \in {"ready", "sleep"}

\* the task is at a point where the event loop resumes it normally: it has
\* not started or waits in await asyncio.sleep(1), and no cancellation is
\* pending
Resumable == pc \in {"ready", "sleep"} /\ ~cancelReq

\* on_mount / on_unmount of a watcher that is used on its own
on_mount ==
  /\ pc \in {"init", "ready", "sleep"}
  /\ \A i \in DOMAIN mountHandlers : mountHandlers[i] # MountedMethod
  /\ Len(mountHandlers) < MaxAux
  /\ mountHandlers' = Append(mountHandlers, AuxHandler("mount", Len(mountHandlers) + 1))
  /\ UNCHANGED <<fsVars, pc, mounted, cancelReq, unmountHandlers, fired, event,
                 lastEvent, lastObs, activityVars, fnVars>>

on_unmount ==
  /\ pc \in {"init", "ready", "sleep"}
  /\ \A i \in DOMAIN unmountHandlers : unmountHandlers[i] # UnmountedMethod
  /\ Len(unmountHandlers) < MaxAux
  /\ unmountHandlers' = Append(unmountHandlers, AuxHandler("unmount", Len(unmountHandlers) + 1))
  /\ UNCHANGED <<fsVars, pc, mounted, cancelReq, mountHandlers, fired, event,
                 lastEvent, lastObs, activityVars, fnVars>>

\* LogDownloaderActivity.activate: the only registrations the activity makes,
\* and the task is spawned
activate ==
  /\ pc = "init"
  /\ mountHandlers = <<>> /\ unmountHandlers = <<>>
  /\ mountHandlers' = <<MountedMethod>>
  /\ unmountHandlers' = <<UnmountedMethod>>
  /\ pc' = "ready"
  /\ UNCHANGED <<fsVars, mounted, cancelReq, fired, event, lastEvent, lastObs, activityVars, fnVars>>

\* run() of a watcher used on its own is handed to the event loop
spawn ==
  /\ pc = "init"
  /\ pc' = "ready"
  /\ UNCHANGED <<fsVars, mounted, cancelReq, mountHandlers, unmountHandlers, fired,
                 event, lastEvent, lastObs, activityVars, fnVars>>

\* one iteration of the loop of run, up to the next await
run ==
  /\ Resumable
  /\ \E entries \in ScanOrders(source), gone \in {NoName} \cup Present(source) :
       LET st0 == [view |-> view, pile |-> pile, done |-> done, source |-> source,
                   mounted |-> mounted, exc |-> "none", fired |-> <<>>, event |-> "none"]
           st1 == run_body(st0, mntExists, entries, gone)
       IN /\ fired' = st1.fired
          /\ event' = st1.event
          /\ lastEvent' = IF st1.event # "none" THEN st1.event ELSE lastEvent
          /\ lastObs' = IF mntExists THEN "present" ELSE "absent"
          /\ mounted' = st1.mounted
          /\ pc' = IF st1.exc # "none" THEN "failed" ELSE "sleep"
          /\ view' = st1.view
          /\ pile' = st1.pile
          /\ done' = st1.done
          /\ source' = st1.source
  /\ UNCHANGED <<mntExists, logsDir, dest, srcDir, cancelReq, mountHandlers,
                 unmountHandlers, settings, filter, calls, raised, fnVars>>

\* the host cancels the task
cancel ==
  /\ pc \in {"ready", "sleep"}
  /\ ~cancelReq
  /\ cancelReq' = TRUE
  /\ UNCHANGED <<fsVars, pc, mounted, mountHandlers, unmountHandlers, fired, event,
                 lastEvent, lastObs, activityVars, fnVars>>

\* CancelledError is thrown into run at its await (or before its first
\* statement) and leaves it: the task is done
run_cancelled ==
  /\ pc \in {"ready", "sleep"}
  /\ cancelReq
  /\ pc' = "cancelled"
  /\ UNCHANGED <<fsVars, mounted, cancelReq, mountHandlers, unmountHandlers, fired,
                 event, lastEvent, lastObs, activityVars, fnVars>>

\* ------------------------------------------------------------ file selection
\* the user activates the row of name in the file list
_file_clicked(name) ==
  /\ view = "app"
  /\ \E i \in DOMAIN pile : pile[i] = name
  /\ LET r == file_clicked(FS, done, name) IN
       /\ mntExists' = r.fs.mnt
       /\ logsDir' = r.fs.logs
       /\ dest' = r.fs.dest
       /\ srcDir' = r.fs.srcDir
       /\ source' = r.fs.source
       /\ done' = r.done
       /\ calls' = r.calls
       /\ raised' = r.exc
  /\ UNCHANGED <<watcherVars, settings, filter, view, pile, fnVars>>

Next ==
  \/ \E blank \in BOOLEAN : Plug(blank)
  \/ Unplug
  \/ \E n \in Names, c \in Contents : WriteLog(n, c)
  \/ \E n \in Names : RemoveLog(n)
  \/ on_mount
  \/ on_unmount
  \/ activate
  \/ spawn
  \/ run
  \/ cancel
  \/ run_cancelled
  \/ \E n \in Names : _file_clicked(n)

Spec == Init /\ [][Next]_vars

\* ------------------------------------------------------ filter check boxes
\* _set_filter_option(attr, w, state): the user flips the check box of attr,
\* which sits in the file-list view; state is the new state of the box
_set_filter_option(attr) ==
  /\ view = "app"
  /\ \E entries \in ScanOrders(source), gone \in {NoName} \cup Present(source) :
       LET state == IF Truthy(filter[attr]) THEN "False" ELSE "True"
           filt == [filter EXCEPT ![attr] = state]
           st0 == [view |-> view, pile |-> pile, done |-> done, source |-> source,
                   mounted |-> mounted, exc |-> "none", fired |-> <<>>, event |-> "none"]
           st1 == populate(filt, st0, entries, gone)
       IN /\ filter' = filt
          /\ settings' = asdict(filt)
          /\ pile' = st1.pile
          /\ done' = st1.done
          /\ source' = st1.source
          /\ raised' = st1.exc
  /\ UNCHANGED <<mntExists, logsDir, dest, srcDir, watcherVars, view, calls, fnVars>>

NextUI ==
  \/ \E blank \in BOOLEAN : Plug(blank)
  \/ Unplug
  \/ \E n \in Names, c \in Contents : WriteLog(n, c)
  \/ \E n \in Names : RemoveLog(n)
  \/ activate
  \/ run
  \/ \E attr \in {"new", "igc", "nmea"} : _set_filter_option(attr)

SpecUI == Init /\ [][NextUI]_vars

\* --------------------------------------------------------- direct calls
MaxListed == 5

\* names a listed directory may hold
ListedNames == {AllNames[i] : i \in 1..(IF MaxListed < Len(AllNames) THEN MaxListed
                                                                    ELSE Len(AllNames))}

\* the orders in which os.scandir may yield a directory holding the names S
DirOrders(S) ==
  {o \in [1..Cardinality(S) -> S] : \A i, j \in DOMAIN o : i # j => o[i] # o[j]}

\* values a persisted mapping may hold, and its keys
PyValues == {"True", "False", "1", "None"}
PyBools == {"True", "False"}
SettingKeys == {"new", "igc", "nmea", "bogus"}
Mappings == UNION {[K -> PyValues] : K \in SUBSET SettingKeys}

\* DownloadFilter objects whose fields are booleans
BoolFilters == [new : PyBools, igc : PyBools, nmea : PyBools]

\* each behaviour of SpecFn makes one call, on fresh objects
InitFn ==
  /\ Init
  /\ ~mntExists
  /\ settings = EmptyMapping

\* DownloadFilter.fromdict(state)
call_fromdict(state) ==
  /\ op = "none"
  /\ op' = "fromdict"
  /\ arg' = state
  /\ result' = fromdict(state)
  /\ UNCHANGED <<fsVars, watcherVars, activityVars>>

\* DownloadFilter.fromdict(f.asdict())
call_roundtrip(f) ==
  /\ op = "none"
  /\ op' = "roundtrip"
  /\ arg' = f
  /\ result' = fromdict(asdict(f))
  /\ UNCHANGED <<fsVars, watcherVars, activityVars>>

\* Downloader(source_dir, mount_dir, selfFilter).list_logs(filter)
call_list_logs(dirExists, entries, gone, selfFilter, filt) ==
  /\ op = "none"
  /\ op' = "list_logs"
  /\ arg' = [dirExists |-> dirExists, entries |-> entries, gone |-> gone,
             selfFilter |-> selfFilter, filter |-> filt]
  /\ result' = list_logs(dirExists, entries, gone, selfFilter, filt)
  /\ UNCHANGED <<fsVars, watcherVars, activityVars>>

NextFn ==
  \/ /\ op = "none"
     /\ \E state \in Mappings : call_fromdict(state)
  \/ /\ op = "none"
     /\ \E f \in BoolFilters : call_roundtrip(f)
  \/ /\ op = "none"
     /\ \E f1, f2 \in BoolFilters : call_list_logs(FALSE, <<>>, NoName, f1, f2)
  \/ /\ op = "none"
     /\ \E S \in SUBSET ListedNames : \E entries \in DirOrders(S) :
          \E gone \in {NoName} \cup S, f \in BoolFilters :
            call_list_logs(TRUE, entries, gone, f, f)
  \/ /\ op = "none"
     /\ \E S \in SUBSET ListedNames : \E entries \in DirOrders(S) :
          \E f1, f2 \in BoolFilters :
            f1 # f2 /\ call_list_logs(TRUE, entries, NoName, f1, f2)

SpecFn == InitFn /\ [][NextFn]_vars

\* ----------------------------------------------------------------- claims

\* C1: an iteration of run that finds the mount path present, when the
\* iteration before it (if any) did not, calls every registered mount handler
\* exactly once, in registration order, and no unmount handler; an iteration
\* that finds the path present again calls no handler.
C1_MountDeliveredOnce ==
  [][run /\ mntExists =>
       IF lastObs # "present" THEN fired' = mountHandlers ELSE fired' = <<>>]_vars

\* a mount event went to two handlers, in the order of their registration
C1_Witness ==
  /\ fired = <<AuxHandler("mount", 1), AuxHandler("mount", 2)>>
  /\ mounted
  /\ unmountHandlers # <<>>

\* C2: once a mount event was delivered, the first iteration of run that
\* finds the mount path absent calls every registered unmount handler exactly
\* once, in registration order, and no mount handler; an iteration that finds
\* the path absent again calls no handler.
C2_UnmountDeliveredOnce ==
  [][run /\ ~mntExists =>
       IF lastObs = "present" THEN fired' = unmountHandlers ELSE fired' = <<>>]_vars

C2_Witness ==
  /\ fired = <<AuxHandler("unmount", 1), AuxHandler("unmount", 2)>>
  /\ ~mounted
  /\ lastEvent = "unmount"
  /\ mountHandlers # <<>>

\* C3: the events run dispatches alternate mount, unmount, mount, ...: a mount
\* event follows no event or an unmount event, an unmount event follows a mount
\* event, and the first iteration dispatches a mount event when it finds the
\* path present.
C3_EventsAlternate ==
  [][run =>
       /\ event' = "mount" => lastEvent \in {"none", "unmount"}
       /\ event' = "unmount" => lastEvent = "mount"
       /\ (pc = "ready" /\ mntExists) => event' = "mount"
       /\ (lastObs = "absent" /\ mntExists) => event' = "mount"
       /\ (lastObs = "present" /\ ~mntExists) => event' = "unmount"]_vars

\* the latest iteration dispatched a mount event that rebuilt the file list,
\* and a file had been copied before it: an earlier mount event and an
\* unmount event lie in between
C3_Witness ==
  /\ event = "mount"
  /\ fired = <<MountedMethod>>
  /\ done = {}
  /\ \E n \in Names : dest[n] # 0

\* C4: a requested cancellation takes effect at the await: the next step of
\* the task ends it, and from the request on no handler is called and the
\* watcher changes nothing, whatever happens to the mount path.
C4_CancelStopsPolling ==
  [][cancelReq =>
       /\ pc' \in {pc, "cancelled"}
       /\ pc = "cancelled" => pc' = "cancelled"
       /\ <<fired, event, lastEvent, lastObs, mounted, view, pile>>' =
            <<fired, event, lastEvent, lastObs, mounted, view, pile>>]_vars

\* the task was cancelled while unmounted and the storage was attached later
C4_Witness ==
  /\ pc = "cancelled"
  /\ mntExists
  /\ ~mounted
  /\ mountHandlers # <<>>
  /\ lastEvent = "unmount"

\* C5: whenever a file selection calls download, the mount directory exists
\* and the watcher's state is Mounted, so that the assertion of
\* _ensure_dest_dir does not fail.
C5_DownloadOnlyWhileMounted ==
  [][\A n \in Names :
       _file_clicked(n) => mntExists /\ mounted /\ raised' # "AssertionError"]_vars

\* C6: a copy that fails during a file selection is reported in the row or
\* in a notification and handled there: the exception of shutil.copy does not
\* leave _file_clicked.
C6_CopyFailureContained == raised # "FileNotFoundError"

\* C7: an error of a file operation made while the mount handler lists the
\* logs does not end the task that runs the watcher.
C7_ListingErrorContained == pc # "failed"

\* C8: download called while the mount directory does not exist raises
\* AssertionError and leaves the file system as it was: no mount directory,
\* no logs directory, no copy; the row is not marked.
C8_DownloadWithoutMountFails ==
  [][\A n \in Names :
       (_file_clicked(n) /\ ~mntExists) =>
          /\ raised' = "AssertionError"
          /\ fsVars' = fsVars
          /\ done' = done]_vars

C8_Witness ==
  /\ raised = "AssertionError"
  /\ ~mntExists
  /\ ~logsDir
  /\ view = "app"

\* C9: download with the mount directory and the source file present returns
\* normally; afterwards the logs directory exists and logs/<name> holds the
\* content of the source file, whatever was there before; the source
\* directory and every other file of the destination are unchanged.
C9_DownloadCopies ==
  [][\A n \in Names :
       (_file_clicked(n) /\ mntExists /\ srcDir /\ source[n] # 0) =>
          /\ raised' = "none"
          /\ mntExists' /\ logsDir'
          /\ dest'[n] = source[n]
          /\ \A m \in Names \ {n} : dest'[m] = dest[m]
          /\ source' = source /\ srcDir' = srcDir]_vars

\* two files were copied, with different contents, and both copies are there
C9_Witness ==
  /\ raised = "none"
  /\ Cardinality(done) = 2
  /\ \A n \in done : dest[n] = source[n] /\ dest[n] # 0
  /\ \E n, m \in done : dest[n] # dest[m]

\* C10: a file selection calls download, then marks the row, then calls
\* os.sync, in this order; a row is marked only when download returned, and
\* the method then always reaches os.sync.
C10_CopyThenDoneThenSync ==
  [][\A n \in Names :
       _file_clicked(n) =>
          \/ /\ calls' = <<"download", "set_text", "sync">>
             /\ raised' = "none"
             /\ done' = done \cup {n}
             /\ dest'[n] = source[n] /\ dest'[n] # 0
          \/ /\ calls' = <<"download">>
             /\ raised' # "none"
             /\ done' = done
             /\ dest' = dest]_vars

\* a selection failed after another row had been marked
C10_Witness ==
  /\ calls = <<"download">>
  /\ raised = "FileNotFoundError"
  /\ done # {}


\* rows _populate_file_pile builds from a listing
file_items(files) == IF files # <<>> THEN NamesOf(files) ELSE <<NoLogsText>>

FilterAttrs == {"new", "igc", "nmea"}

\* C11: after each iteration of run the frame shows the file list exactly
\* when the watcher's state is Mounted; an iteration that dispatches a mount
\* event rebuilds the file list from list_logs under the current filter (the
\* 'no logs' row for an empty listing) and shows the file-list view.
C11_ViewFollowsWatcher ==
  [][run =>
       /\ (view' = "app") <=> mounted'
       /\ event' = "mount" =>
            /\ view' = "app"
            /\ \E entries \in ScanOrders(source) :
                 pile' = file_items(list_logs(srcDir, entries, NoName, filter, filter).value)]_vars

\* C12: a toggle of a filter check box changes the toggled field only, leaves
\* the mapping of the new filter under the settings key, and leaves the file
\* list equal to the listing under the new filter.
C12_ToggleSavedAndRendered ==
  [][\A attr \in FilterAttrs :
       _set_filter_option(attr) =>
          /\ settings' = asdict(filter')
          /\ filter'[attr] # filter[attr]
          /\ \A k \in FilterAttrs \ {attr} : filter'[k] = filter[k]
          /\ \E entries \in ScanOrders(source') :
               pile' = file_items(list_logs(srcDir, entries, NoName, filter', filter').value)]_vars


\* the name n ends, whatever the case of its letters, in the extension ext,
\* after a stem that does not consist of dots only
HasExtension(n, ext) ==
  LET k == Len(n) - Len(ext) IN
  /\ k >= 1
  /\ \A i \in 1..Len(ext) : LowerChar(n[k + i]) = ext[i]
  /\ \E j \in 1..k : n[j] # "."

Range(seq) == {seq[i] : i \in DOMAIN seq}

\* C13: a call of list_logs that returns, on a Downloader whose filter is the
\* one passed, returns each directory entry at most once, and an entry is
\* returned exactly if its extension is .igc and filter.igc is set or is
\* .nmea and filter.nmea is set, and, with filter.new set, it is not marked
\* downloaded; other entries are left out for every filter.
C13_ListingMatchesFilter ==
  (op = "list_logs" /\ result.exc = "none" /\ arg.selfFilter = arg.filter) =>
     LET f == arg.filter
         returned == Range(NamesOf(result.value))
     IN /\ Cardinality(returned) = Len(result.value)
        /\ returned \subseteq Range(arg.entries)
        /\ \A i \in DOMAIN result.value :
             LET fi == result.value[i] IN
             /\ fi.ftype \in {EXT_IGC, EXT_NMEA}
             /\ f.new = "True" => ~fi.downloaded
        /\ \A n \in Range(arg.entries) :
             n \in returned <=>
               \/ HasExtension(n, EXT_IGC) /\ f.igc = "True"
               \/ HasExtension(n, EXT_NMEA) /\ f.nmea = "True"
        /\ (f.igc = "False" /\ f.nmea = "False") => result.value = <<>>

\* with only igc set, of a.igc, B.NMEA, c.txt, d.Igc and .igc the listing
\* holds a.igc and d.Igc
C13_Witness ==
  /\ op = "list_logs"
  /\ result.exc = "none"
  /\ arg.filter = [new |-> "False", igc |-> "True", nmea |-> "False"]
  /\ arg.selfFilter = arg.filter
  /\ Len(arg.entries) = 5
  /\ Range(NamesOf(result.value)) = {AllNames[1], AllNames[4]}

\* C14: the list list_logs returns is in descending order of modification
\* time and is a permutation of the entries that match.
C14_ListingSortedDescending ==
  (op = "list_logs" /\ result.exc = "none") =>
     /\ \A i \in 1..(Len(result.value) - 1) :
          result.value[i].mtime >= result.value[i + 1].mtime
     /\ Cardinality(Range(NamesOf(result.value))) = Len(result.value)
     /\ Range(NamesOf(result.value)) =
          {n \in Range(arg.entries) : _matches(FileInfo(n), arg.selfFilter)}

\* three entries were returned, the newest one having been yielded last and
\* the two older ones, of equal time, kept in the order of the scan
C14_Witness ==
  /\ op = "list_logs"
  /\ result.exc = "none"
  /\ Len(result.value) = 3
  /\ result.value[1].mtime > result.value[3].mtime
  /\ result.value[2].mtime = result.value[3].mtime
  /\ arg.entries[1] = result.value[2].name
  /\ arg.entries[Len(arg.entries)] = result.value[1].name

\* C15: list_logs on a source directory that does not exist returns the empty
\* list and raises nothing, for every filter.
C15_MissingDirectoryListsNothing ==
  (op = "list_logs" /\ ~arg.dirExists) => result = [value |-> <<>>, exc |-> "none"]

C15_Witness ==
  /\ op = "list_logs"
  /\ ~arg.dirExists
  /\ arg.filter = [new |-> "False", igc |-> "True", nmea |-> "True"]
  /\ result.value = <<>>

\* C16: fromdict(f.asdict()) equals f for each of the eight filters.
C16_RoundTrip == op = "roundtrip" => result = arg

C16_Witness ==
  /\ op = "roundtrip"
  /\ arg = [new |-> "False", igc |-> "False", nmea |-> "True"]
  /\ result = arg

\* C17: fromdict returns the defaults (new and igc set, nmea unset), each
\* field replaced by the value the mapping holds under its key if it holds
\* one; other keys are ignored and the empty mapping gives the defaults.
C17_FromdictOverridesDefaults ==
  op = "fromdict" =>
     /\ DOMAIN result = FilterAttrs
     /\ \A k \in FilterAttrs :
          result[k] = IF k \in DOMAIN arg THEN arg[k]
                      ELSE IF k = "nmea" THEN "False" ELSE "True"
     /\ arg = EmptyMapping => result = [new |-> "True", igc |-> "True", nmea |-> "False"]

\* fromdict({"igc": False, "nmea": True, "bogus": 1})
C17_Witness ==
  /\ op = "fromdict"
  /\ DOMAIN arg = {"igc", "nmea", "bogus"}
  /\ arg["igc"] = "False" /\ arg["nmea"] = "True" /\ arg["bogus"] = "1"
  /\ result = [new |-> "True", igc |-> "False", nmea |-> "True"]

\* C18: every field of a filter fromdict returns is a boolean: a value that
\* is not a boolean, held under a recognized key, is replaced by the default
\* of the field.
C18_MalformedFallsBack ==
  op = "fromdict" =>
     \A k \in FilterAttrs :
       /\ result[k] \in PyBools
       /\ (k \in DOMAIN arg /\ arg[k] \notin PyBools) => result[k] = DefaultFilter[k]

\* C19: what list_logs returns is the listing under the filter passed as the
\* argument, also on a Downloader constructed with another filter.
C19_ArgumentFilterDecides ==
  op = "list_logs" =>
     result = list_logs(arg.dirExists, arg.entries, arg.gone, arg.filter, arg.filter)

\* C20: when a mount event rebuilds the file list, no FileInfo of the listing
\* is marked downloaded, whatever was copied before, and the listing with
\* filter.new set equals the listing with filter.new unset; the file list
\* shows it.
C20_NothingMarkedDownloaded ==
  [][(run /\ fired' = <<MountedMethod>> /\ pc' = "sleep") =>
       \E entries \in ScanOrders(source) :
         LET fnew == [filter EXCEPT !.new = "True"]
             fall == [filter EXCEPT !.new = "False"]
             new == list_logs(srcDir, entries, NoName, fnew, fnew).value
             all == list_logs(srcDir, entries, NoName, fall, fall).value
         IN /\ new = all
            /\ \A i \in DOMAIN new : ~new[i].downloaded
            /\ pile' = file_items(all)]_vars

\* the file list was rebuilt with filter.new set and shows a file whose copy
\* is on the attached storage
C20_Witness ==
  /\ fired = <<MountedMethod>>
  /\ pc = "sleep"
  /\ done = {}
  /\ filter.new = "True"
  /\ mntExists
  /\ \E i \in DOMAIN pile : pile[i] \in Names /\ dest[pile[i]] # 0

====
